---- MODULE Spec2Model ----
(***************************************************************************)
(* Model of the server actions of the banking manager:                     *)
(*   lib/actions/user.actions.ts        (sign-up, sign-in, logout, the     *)
(*                                       account-linking workflow, the     *)
(*                                       Bank queries)                     *)
(*   lib/actions/transaction.actions.ts (createTransaction,                *)
(*                                       getTransactionsByBankId)          *)
(*   lib/actions/dwolla.actions.ts      (the processor adapter)            *)
(* The three external platforms (identity/data store, aggregator,          *)
(* processor) are the environment: every call to them either answers or    *)
(* throws, chosen nondeterministically.                                    *)
(***************************************************************************)
EXTENDS Integers, Sequences, FiniteSets, TLC

VARIABLES
  accounts,      \* Identity-service accounts, in creation order
  customers,     \* processor customers, in creation order
  users,         \* User collection, in creation order
  sessions,      \* live Identity-service sessions
  cookie,        \* value of the "appwrite-session" cookie, or Null
  fundingSources,\* funding sources the processor registered, in order
  starts,        \* number of exchangePublicToken invocations so far
  banks,         \* Bank collection, in creation order
  linked,        \* $id of the Bank documents the linking workflow persisted
  run,           \* the exchangePublicToken invocations in flight
  transactions,  \* Transaction collection, in creation order
  last           \* the most recently completed action and what it returned

vars == <<accounts, customers, users, sessions, cookie, fundingSources,
          starts, banks, linked, run, transactions, last>>

authVars == <<accounts, customers, users, sessions, cookie>>
linkVars == <<fundingSources, starts, banks, linked, run>>

----------------------------------------------------------------------------
(* Bounds                                                                  *)

MaxAccounts == 2
MaxSessions == 2
MaxBanks == 2
MaxTransactions == 3
MaxRunStarts == 2
MaxRecords == 3

----------------------------------------------------------------------------
(* JavaScript values                                                       *)

Undefined == [t |-> "undefined"]
Null == [t |-> "null"]
EmptyString == [t |-> "string", segs |-> <<>>]

\* a string, kept as the segments the code tells apart
Str(segs) == [t |-> "string", segs |-> segs]

\* a URL string, kept as its "/"-separated segments
Url(segs) == Str(segs)

\* JavaScript truthiness of the values above: `!v`
Falsy(v) == v \in {Undefined, Null, EmptyString}

\* what a function that ran to its end without `return` yields
NoReturn == Undefined

\* the completion of an expression that threw
Thrown == [t |-> "throw"]

----------------------------------------------------------------------------
(* lib/utils.ts                                                            *)

\* the customer id is the last segment of the customer's location URL
extractCustomerIdFromUrl(url) ==
  IF url.t # "string" THEN Thrown
  ELSE IF url.segs = <<>> THEN url
  ELSE url.segs[Len(url.segs)]

\* JSON.parse(JSON.stringify(v)): a document of strings and numbers comes back
\* equal; JSON.stringify(undefined) is undefined, which JSON.parse rejects
parseStringify(v) == IF v = Undefined THEN Thrown ELSE v

\* reversible encoding of the account id
encryptId(id) == Str(<<"enc", id>>)

----------------------------------------------------------------------------
(* Inputs                                                                  *)

Emails == {"a@b.com", "c@d.com"}
Passwords == {"pw"}
UserData == [email : Emails, firstName : {"A"}, lastName : {"B"}]

----------------------------------------------------------------------------
(* Initial state: empty stores, no session, no workflow in flight          *)

\* the concurrent invocations of exchangePublicToken the model follows
Runs == {1, 2}

Idle == [pc |-> "idle"]

Init ==
  /\ accounts = <<>>
  /\ customers = <<>>
  /\ users = <<>>
  /\ sessions = <<>>
  /\ cookie = Null
  /\ fundingSources = <<>>
  /\ starts = 0
  /\ banks = <<>>
  /\ linked = {}
  /\ run = [r \in Runs |-> Idle]
  /\ transactions = <<>>
  /\ last = [op |-> "none"]

----------------------------------------------------------------------------
(* Collaborators, as far as the actions use them                           *)

\* ID.unique() and the ids the services assign: fresh per collection
UniqueId(kind, store) == Str(<<kind, Len(store) + 1>>)

\* account.create(ID.unique(), email, password, name)
NewAccount(email, password, firstName, lastName) ==
  [id |-> UniqueId("account", accounts), email |-> email,
   password |-> password, name |-> <<firstName, lastName>>]

\* the processor's new customer and the Location header it answers with
NewCustomer(newCustomer) ==
  LET cid == UniqueId("customer", customers)
  IN [id |-> cid, email |-> newCustomer.email, type |-> newCustomer.type,
      url |-> Url(<<"https://api.dwolla.com", "customers", cid>>)]

\* account.createEmailPasswordSession(email, password)
NewSession(userId) ==
  [secret |-> UniqueId("secret", sessions), userId |-> userId, live |-> TRUE]

\* documents of a collection whose field equals the value, in stored order
ListDocuments(store, field, value) ==
  LET docs == SelectSeq(store, LAMBDA d : d[field] = value)
  IN [total |-> Len(docs), documents |-> docs]

\* documents[0]
First(documents) == IF Len(documents) = 0 THEN Undefined ELSE documents[1]

\* createSessionClient(): no session cookie, no client
HasSessionCookie == cookie # Null

----------------------------------------------------------------------------
(* user.actions.ts: getUserInfo, as its callers see it                     *)

\* ok = FALSE: createAdminClient or listDocuments threw, logged, no return
getUserInfo(userId, ok) ==
  IF ~ok THEN NoReturn
  ELSE LET r == parseStringify(First(ListDocuments(users, "userId", userId).documents))
       IN IF r = Thrown THEN NoReturn ELSE r

----------------------------------------------------------------------------
(* user.actions.ts: signUp                                                 *)

SignUpFailures ==
  {"account", "customerThrow", "customerNoLocation", "document", "session", "none"}

\* faulty variant: the account's id stored as the processor-customer id
NewUserDocumentAccountAsCustomer(userData, newUserAccount, dwollaCustomerUrl) ==
  [id |-> UniqueId("user", users),
   email |-> userData.email,
   firstName |-> userData.firstName,
   lastName |-> userData.lastName,
   userId |-> newUserAccount.id,
   dwollaCustomerId |-> newUserAccount.id,
   dwollaCustomerUrl |-> dwollaCustomerUrl]

\* the document signUp hands to createDocument (lines 108-113)
NewUserDocument(userData, newUserAccount, dwollaCustomerUrl) ==
  [id |-> UniqueId("user", users),
   email |-> userData.email,
   firstName |-> userData.firstName,
   lastName |-> userData.lastName,
   userId |-> newUserAccount.id,
   dwollaCustomerId |-> extractCustomerIdFromUrl(dwollaCustomerUrl),
   dwollaCustomerUrl |-> dwollaCustomerUrl]

\* faulty variant: a URL comes back whether or not the post went through
createDwollaCustomerAlwaysUrl(newCustomer, f) == NewCustomer(newCustomer).url

\* createDwollaCustomer: the Location header, or nothing when the post threw
createDwollaCustomer(newCustomer, f) ==
  IF f = "customerThrow" THEN NoReturn
  ELSE IF f = "customerNoLocation" THEN Null
  ELSE NewCustomer(newCustomer).url

\* how far signUp gets when the step named f fails (lines 84-126)
SignUpReached(f, dwollaCustomerUrl) ==
  LET accountOk == f # "account"
      customerOk == accountOk /\ ~Falsy(dwollaCustomerUrl)
      documentOk == customerOk /\ f # "document"
      sessionOk == documentOk /\ f # "session"
  IN [account |-> accountOk, customer |-> customerOk,
      document |-> documentOk, session |-> sessionOk]

SignUp(userData, password, f) ==
  /\ Len(accounts) < MaxAccounts
  /\ Len(sessions) < MaxSessions
  /\ LET newUserAccount ==
           NewAccount(userData.email, password, userData.firstName, userData.lastName)
         newCustomer == [email |-> userData.email, type |-> "personal"]
         dwollaCustomerUrl == createDwollaCustomer(newCustomer, f)
         at == SignUpReached(f, dwollaCustomerUrl)
         newUser == NewUserDocument(userData, newUserAccount, dwollaCustomerUrl)
         session == NewSession(newUserAccount.id)
     IN /\ accounts' = IF at.account THEN Append(accounts, newUserAccount) ELSE accounts
        /\ customers' = IF at.account /\ f # "customerThrow"
                          THEN Append(customers, NewCustomer(newCustomer))
                          ELSE customers
        /\ users' = IF at.document THEN Append(users, newUser) ELSE users
        /\ sessions' = IF at.session THEN Append(sessions, session) ELSE sessions
        /\ cookie' = IF at.session THEN session.secret ELSE cookie
        /\ last' = [op |-> "signUp", fail |-> f,
                    ret |-> IF at.session THEN parseStringify(newUser) ELSE NoReturn,
                    pre |-> [accounts |-> Len(accounts), customers |-> Len(customers),
                             users |-> Len(users), sessions |-> Len(sessions),
                             cookie |-> cookie]]
  /\ UNCHANGED <<linkVars, transactions>>

----------------------------------------------------------------------------
(* user.actions.ts: signIn, getLoggedInUser, logoutAccount                 *)

\* the accounts the Identity service accepts the credentials for
Authenticated(email, password) ==
  {i \in 1..Len(accounts) :
     accounts[i].email = email /\ accounts[i].password = password}

SignIn(email, password, sessionOk, infoOk) ==
  /\ Len(sessions) < MaxSessions
  /\ \/ /\ sessionOk
        /\ \E i \in Authenticated(email, password) :
             LET session == NewSession(accounts[i].id)
                 user == getUserInfo(session.userId, infoOk)
                 r == parseStringify(user)
             IN /\ sessions' = Append(sessions, session)
                /\ cookie' = session.secret
                /\ last' = [op |-> "signIn",
                            ret |-> IF r = Thrown THEN NoReturn ELSE r]
     \/ /\ ~sessionOk
        /\ infoOk
        /\ UNCHANGED <<sessions, cookie>>
        /\ last' = [op |-> "signIn", ret |-> NoReturn]
  /\ UNCHANGED <<accounts, customers, users, linkVars, transactions>>

\* the live session the cookie names, if any
CurrentSession ==
  {i \in 1..Len(sessions) : sessions[i].live /\ sessions[i].secret = cookie}

GetLoggedInUser(infoOk) ==
  /\ \/ /\ HasSessionCookie
        /\ \E i \in CurrentSession :
             LET r == parseStringify(getUserInfo(sessions[i].userId, infoOk))
             IN last' = [op |-> "getLoggedInUser",
                         ret |-> IF r = Thrown THEN Null ELSE r]
     \/ /\ ~HasSessionCookie \/ CurrentSession = {}
        /\ infoOk
        /\ last' = [op |-> "getLoggedInUser", ret |-> Null]
  /\ UNCHANGED <<authVars, linkVars, transactions>>

\* what logoutAccount returns: null from the catch block, nothing otherwise
\* (lines 157-165)
LogoutReturn(threw) == IF threw THEN Null ELSE NoReturn

\* revoked = FALSE: account.deleteSession('current') threw
LogoutAccount(revoked) ==
  /\ \/ /\ HasSessionCookie
        /\ cookie' = Null
        /\ sessions' = IF revoked
                         THEN [i \in 1..Len(sessions) |->
                                 IF sessions[i].secret = cookie
                                   THEN [sessions[i] EXCEPT !.live = FALSE]
                                   ELSE sessions[i]]
                         ELSE sessions
        /\ last' = [op |-> "logoutAccount", path |-> IF revoked THEN "revoked" ELSE "revokeFailed",
                    ret |-> LogoutReturn(~revoked)]
     \/ /\ ~HasSessionCookie
        /\ revoked
        /\ UNCHANGED <<sessions, cookie>>
        /\ last' = [op |-> "logoutAccount", path |-> "noSession",
                    ret |-> LogoutReturn(TRUE)]
  /\ UNCHANGED <<accounts, customers, users, linkVars, transactions>>

AuthNext ==
  \/ \E userData \in UserData, password \in Passwords, f \in SignUpFailures :
       SignUp(userData, password, f)
  \/ \E email \in Emails, password \in Passwords, sessionOk, infoOk \in BOOLEAN :
       SignIn(email, password, sessionOk, infoOk)
  \/ \E infoOk \in BOOLEAN : GetLoggedInUser(infoOk)
  \/ \E revoked \in BOOLEAN : LogoutAccount(revoked)

SpecAuth == Init /\ [][AuthNext]_vars

----------------------------------------------------------------------------
(* The aggregator's items, as the linking workflow meets them              *)

PublicTokens == {"public-1", "public-2"}

\* itemPublicTokenExchange: the item a public token stands for
ItemOf(publicToken) ==
  IF publicToken = "public-1" THEN "item-1" ELSE "item-2"

\* accountsGet: the accounts of an item; item-2 has none
AccountsOf(itemId) ==
  IF itemId = "item-1"
    THEN <<[account_id |-> "acct-A", name |-> "Checking"],
           [account_id |-> "acct-B", name |-> "Savings"]>>
    ELSE <<>>

AccessTokenOf(itemId) == Str(<<"access", itemId>>)

\* processorTokenCreate({access_token, account_id, processor: "dwolla"})
ProcessorTokenOf(accessToken, accountId) ==
  Str(<<"processor", "dwolla", accessToken.segs[2], accountId>>)

\* the user objects the callers pass to exchangePublicToken
LinkUsers ==
  {[id |-> Str(<<"user", 1>>), dwollaCustomerId |-> Str(<<"customer", 1>>)]}

\* the Location header of a newly registered funding source
NewFundingSourceUrl ==
  Url(<<"https://api.dwolla.com", "funding-sources",
        UniqueId("funding-source", fundingSources)>>)

----------------------------------------------------------------------------
(* user.actions.ts: createBankAccount                                      *)

\* the document createBankAccount hands to createDocument (lines 221-228)
NewBankDocument(fields) ==
  [id |-> UniqueId("bank", banks),
   userId |-> fields.userId,
   bankId |-> fields.bankId,
   accountId |-> fields.accountId,
   accessToken |-> fields.accessToken,
   fundingSourceUrl |-> fields.fundingSourceUrl,
   shareableId |-> fields.shareableId]

\* createBankAccount: the stored document, or nothing when createDocument
\* threw (the catch block is empty, lines 232-234)
createBankAccount(fields, ok) ==
  IF ok THEN parseStringify(NewBankDocument(fields)) ELSE NoReturn

\* faulty variant: a second document for an accountId is not stored
BanksAfterUnique(fields, ok) ==
  IF ok /\ ~\E i \in 1..Len(banks) : banks[i].accountId = fields.accountId
    THEN Append(banks, NewBankDocument(fields))
    ELSE banks

\* faulty variant: a document with the same accountId is replaced
BanksAfterUpsert(fields, ok) ==
  IF ~ok THEN banks
  ELSE IF \E i \in 1..Len(banks) : banks[i].accountId = fields.accountId
    THEN [i \in 1..Len(banks) |->
            IF banks[i].accountId = fields.accountId
              THEN NewBankDocument(fields) ELSE banks[i]]
  ELSE Append(banks, NewBankDocument(fields))

\* the Bank collection after createBankAccount
BanksAfter(fields, ok) ==
  IF ok THEN Append(banks, NewBankDocument(fields)) ELSE banks

\* what a caller other than the linking workflow may pass: here the second
\* account of item-1, which the workflow never selects, with no funding source
DirectBankFields ==
  {[userId |-> Str(<<"user", 1>>), bankId |-> "item-1", accountId |-> "acct-B",
    accessToken |-> AccessTokenOf("item-1"), fundingSourceUrl |-> EmptyString,
    shareableId |-> encryptId("acct-B")]}

\* the invocations of the linking workflow that have not returned yet
InFlight == Cardinality({r \in Runs : run[r].pc \notin {"idle", "done"}})

\* createBankAccount called on its own
CreateBankAccountCall(fields, ok) ==
  /\ Len(banks) + InFlight < MaxBanks
  /\ banks' = BanksAfter(fields, ok)
  /\ last' = [op |-> "createBankAccount", ret |-> createBankAccount(fields, ok)]
  /\ UNCHANGED <<authVars, fundingSources, starts, linked, run, transactions>>

----------------------------------------------------------------------------
(* dwolla.actions.ts: the processor adapter                                *)

\* createOnDemandAuthorization: the link set, or nothing when the post threw
\* (the error is logged, not rethrown, lines 143-145)
createOnDemandAuthorization(ok) ==
  IF ok THEN [self |-> Url(<<"https://api.dwolla.com", "on-demand-authorizations">>)]
  ELSE NoReturn

FundingOutcomes == {"location", "noLocation", "emptyLocation", "throw"}

\* createFundingSource: the Location header, or nothing when the post threw
\* (lines 119-128)
createFundingSource(outcome) ==
  CASE outcome = "location" -> NewFundingSourceUrl
    [] outcome = "noLocation" -> Null
    [] outcome = "emptyLocation" -> EmptyString
    [] OTHER -> NoReturn

\* the processor's funding sources after the post of createFundingSource
FundingSourcesAfter(options, outcome) ==
  IF outcome = "throw" THEN fundingSources
  ELSE Append(fundingSources,
              [url |-> createFundingSource(outcome),
               customerId |-> options.customerId,
               name |-> options.fundingSourceName,
               plaidToken |-> options.plaidToken,
               links |-> options.links])

----------------------------------------------------------------------------
(* user.actions.ts: exchangePublicToken, one action per awaited call       *)

StepOrder ==
  <<"itemPublicTokenExchange", "accountsGet", "processorTokenCreate",
    "createOnDemandAuthorization", "createFundingSource", "createBankAccount",
    "revalidatePath">>

Complete == [publicTokenExchange |-> "complete"]

\* `last` while an invocation of the workflow is the latest to have moved
Stepped == [op |-> "exchangePublicToken"]

\* the run's record with the step it just made
Logged(rn, step, ok) ==
  [rn EXCEPT !.trace = Append(@, [step |-> step, ok |-> ok])]

\* faulty variant: the catch block rethrows
CatchRethrows(rn) == [pc |-> "done", ret |-> Thrown] @@ rn

\* the catch block: the error is logged and nothing is returned (lines 303-306)
Catch(rn) == [pc |-> "done", ret |-> NoReturn] @@ rn

\* faulty variant: only a missing result aborts, a null or empty one does not
MayPersistUnlessUndefined(fundingSourceUrl) == fundingSourceUrl # Undefined

\* line 284: `if (!fundingSourceUrl) throw Error`
MayPersist(fundingSourceUrl) == ~Falsy(fundingSourceUrl)

\* the arguments of the createBankAccount call (lines 287-294)
LinkBankFields(rn) ==
  [userId |-> rn.user.id,
   bankId |-> rn.itemId,
   accountId |-> rn.accountData.account_id,
   accessToken |-> rn.accessToken,
   fundingSourceUrl |-> rn.fundingSourceUrl,
   shareableId |-> encryptId(rn.accountData.account_id)]

Start(r, publicToken, user) ==
  /\ run[r].pc \in {"idle", "done"}
  /\ starts < MaxRunStarts
  /\ Len(banks) + InFlight < MaxBanks
  /\ starts' = starts + 1
  /\ run' = [run EXCEPT ![r] = [pc |-> "itemPublicTokenExchange",
                                publicToken |-> publicToken,
                                user |-> user, trace |-> <<>>]]
  /\ last' = Stepped
  /\ UNCHANGED <<authVars, fundingSources, banks, linked, transactions>>

ItemPublicTokenExchange(r, ok) ==
  /\ run[r].pc = "itemPublicTokenExchange"
  /\ LET rn == Logged(run[r], "itemPublicTokenExchange", ok)
         itemId == ItemOf(rn.publicToken)
     IN run' = [run EXCEPT ![r] =
                  IF ok THEN [pc |-> "accountsGet",
                              accessToken |-> AccessTokenOf(itemId),
                              itemId |-> itemId] @@ rn
                  ELSE Catch(rn)]
  /\ last' = Stepped
  /\ UNCHANGED <<authVars, fundingSources, starts, banks, linked, transactions>>

\* accounts[0], then the read of accountData.account_id (line 268), which
\* throws a TypeError inside the try block when there is no first account
AccountsGet(r, ok) ==
  /\ run[r].pc = "accountsGet"
  /\ LET rn == Logged(run[r], "accountsGet", ok)
         accountData == First(AccountsOf(rn.itemId))
     IN run' = [run EXCEPT ![r] =
                  IF ~ok THEN Catch(rn)
                  ELSE IF accountData = Undefined
                    THEN Catch([accountData |-> accountData] @@ rn)
                  ELSE [pc |-> "processorTokenCreate",
                        accountData |-> accountData] @@ rn]
  /\ last' = Stepped
  /\ UNCHANGED <<authVars, fundingSources, starts, banks, linked, transactions>>

ProcessorTokenCreate(r, ok) ==
  /\ run[r].pc = "processorTokenCreate"
  /\ LET rn == Logged(run[r], "processorTokenCreate", ok)
     IN run' = [run EXCEPT ![r] =
                  IF ok THEN [pc |-> "createOnDemandAuthorization",
                              processorToken |->
                                ProcessorTokenOf(rn.accessToken,
                                                 rn.accountData.account_id)] @@ rn
                  ELSE Catch(rn)]
  /\ last' = Stepped
  /\ UNCHANGED <<authVars, fundingSources, starts, banks, linked, transactions>>

\* addFundingSource, first half (lines 217-219): whatever
\* createOnDemandAuthorization yields becomes _links
OnDemandAuthorization(r, ok) ==
  /\ run[r].pc = "createOnDemandAuthorization"
  /\ LET rn == Logged(run[r], "createOnDemandAuthorization", ok)
     IN run' = [run EXCEPT ![r] =
                  [pc |-> "createFundingSource",
                   dwollaAuthLinks |-> createOnDemandAuthorization(ok)] @@ rn]
  /\ last' = Stepped
  /\ UNCHANGED <<authVars, fundingSources, starts, banks, linked, transactions>>

\* addFundingSource, second half (lines 222-228), and the check of its
\* result (line 284)
FundingSource(r, outcome) ==
  /\ run[r].pc = "createFundingSource"
  /\ LET fundingSourceUrl == createFundingSource(outcome)
         rn == Logged(run[r], "createFundingSource", ~Falsy(fundingSourceUrl))
         options == [customerId |-> rn.user.dwollaCustomerId,
                     fundingSourceName |-> rn.accountData.name,
                     plaidToken |-> rn.processorToken,
                     links |-> rn.dwollaAuthLinks]
     IN /\ fundingSources' = FundingSourcesAfter(options, outcome)
        /\ run' = [run EXCEPT ![r] =
                     IF MayPersist(fundingSourceUrl)
                       THEN [pc |-> "createBankAccount",
                             fundingSourceUrl |-> fundingSourceUrl] @@ rn
                       ELSE Catch([fundingSourceUrl |-> fundingSourceUrl] @@ rn)]
  /\ last' = Stepped
  /\ UNCHANGED <<authVars, starts, banks, linked, transactions>>

\* the awaited createBankAccount (lines 287-294): its failure is swallowed
\* by createBankAccount itself, so the workflow goes on either way
PersistBank(r, ok) ==
  /\ run[r].pc = "createBankAccount"
  /\ LET rn == Logged(run[r], "createBankAccount", ok)
         fields == LinkBankFields(rn)
     IN /\ banks' = BanksAfter(fields, ok)
        /\ linked' = IF ok THEN linked \cup {NewBankDocument(fields).id} ELSE linked
        /\ run' = [run EXCEPT ![r] = [pc |-> "revalidatePath"] @@ rn]
  /\ last' = Stepped
  /\ UNCHANGED <<authVars, fundingSources, starts, transactions>>

\* revalidatePath("/") and the return (lines 297-302)
RevalidatePath(r, ok) ==
  /\ run[r].pc = "revalidatePath"
  /\ LET rn == Logged(run[r], "revalidatePath", ok)
     IN run' = [run EXCEPT ![r] =
                  IF ok THEN [pc |-> "done", ret |-> parseStringify(Complete)] @@ rn
                  ELSE Catch(rn)]
  /\ last' = Stepped
  /\ UNCHANGED <<authVars, fundingSources, starts, banks, linked, transactions>>

ExchangePublicToken(r) ==
  \/ \E publicToken \in PublicTokens, user \in LinkUsers : Start(r, publicToken, user)
  \/ \E ok \in BOOLEAN : ItemPublicTokenExchange(r, ok)
  \/ \E ok \in BOOLEAN : AccountsGet(r, ok)
  \/ \E ok \in BOOLEAN : ProcessorTokenCreate(r, ok)
  \/ \E ok \in BOOLEAN : OnDemandAuthorization(r, ok)
  \/ \E outcome \in FundingOutcomes : FundingSource(r, outcome)
  \/ \E ok \in BOOLEAN : PersistBank(r, ok)
  \/ \E ok \in BOOLEAN : RevalidatePath(r, ok)

----------------------------------------------------------------------------
(* user.actions.ts: getBankByAccountId                                     *)

AccountIds == {"acct-A", "acct-B"}

\* faulty variant: null only when nothing matches
BankByAccountIdFirstMatch(bank) ==
  IF bank.total < 1 THEN Null ELSE parseStringify(First(bank.documents))

\* lines 366-374 on the answer of listDocuments
BankByAccountId(bank) ==
  IF bank.total # 1 THEN Null ELSE parseStringify(First(bank.documents))

\* ok = FALSE: createAdminClient or listDocuments threw, logged, no return
getBankByAccountId(accountId, ok) ==
  IF ok THEN BankByAccountId(ListDocuments(banks, "accountId", accountId))
  ELSE NoReturn

GetBankByAccountId(accountId, ok) ==
  /\ last' = [op |-> "getBankByAccountId", accountId |-> accountId, ok |-> ok,
              ret |-> getBankByAccountId(accountId, ok)]
  /\ UNCHANGED <<authVars, linkVars, transactions>>

LinkNext ==
  \/ \E r \in Runs : ExchangePublicToken(r)
  \/ \E fields \in DirectBankFields, ok \in BOOLEAN : CreateBankAccountCall(fields, ok)
  \/ \E accountId \in AccountIds, ok \in BOOLEAN : GetBankByAccountId(accountId, ok)

SpecLink == Init /\ [][LinkNext]_vars

----------------------------------------------------------------------------
(* transaction.actions.ts                                                  *)

BankIds == {"X", "Y"}

\* what the callers pass: the transfer's fields, and possibly more
TransferFields ==
  [senderBankId : BankIds, receiverBankId : BankIds,
   amount : {"5.00"}, currency : {"USD"}]

TransactionInputs ==
  TransferFields \cup
  {t @@ [channel |-> "In Store"] : t \in TransferFields} \cup
  {t @@ [category |-> "Food"] : t \in {u \in TransferFields : u.senderBankId = "X"}}

\* { channel: 'Online', category: 'Transfer', ...transaction }: a key of the
\* argument replaces the same key written before the spread (lines 30-34)
TransactionData(transaction) ==
  transaction @@ [channel |-> "Online", category |-> "Transfer"]

\* the stored document: the data under a fresh $id
NewTransactionDocument(transaction) ==
  [id |-> UniqueId("transaction", transactions)] @@ TransactionData(transaction)

\* ok = FALSE: createAdminClient or createDocument threw, logged, no return
CreateTransaction(transaction, ok) ==
  /\ Len(transactions) < MaxTransactions
  /\ LET newTransaction == NewTransactionDocument(transaction)
     IN /\ transactions' = IF ok THEN Append(transactions, newTransaction)
                           ELSE transactions
        /\ last' = [op |-> "createTransaction", arg |-> transaction, ok |-> ok,
                    ret |-> IF ok THEN parseStringify(newTransaction) ELSE NoReturn]
  /\ UNCHANGED <<authVars, linkVars>>

\* faulty variant: the total counts the sender matches only
TransactionsOfSenderTotal(senderTransactions, receiverTransactions) ==
  [total |-> senderTransactions.total,
   documents |-> senderTransactions.documents \o receiverTransactions.documents]

\* faulty variant: the sender matches are spread twice
TransactionsOfSenderTwice(senderTransactions, receiverTransactions) ==
  [total |-> senderTransactions.total + receiverTransactions.total,
   documents |-> senderTransactions.documents \o senderTransactions.documents]

\* lines 65-71 on the answers of the two listDocuments calls
TransactionsOf(senderTransactions, receiverTransactions) ==
  [total |-> senderTransactions.total + receiverTransactions.total,
   documents |-> senderTransactions.documents \o receiverTransactions.documents]

\* ok = FALSE: createAdminClient or one of the listDocuments calls threw
getTransactionsByBankId(bankId, ok) ==
  IF ok
    THEN parseStringify(TransactionsOf(
           ListDocuments(transactions, "senderBankId", bankId),
           ListDocuments(transactions, "receiverBankId", bankId)))
    ELSE NoReturn

GetTransactionsByBankId(bankId, ok) ==
  /\ last' = [op |-> "getTransactionsByBankId", bankId |-> bankId, ok |-> ok,
              ret |-> getTransactionsByBankId(bankId, ok)]
  /\ UNCHANGED <<authVars, linkVars, transactions>>

TxNext ==
  \/ \E transaction \in TransactionInputs, ok \in BOOLEAN :
       CreateTransaction(transaction, ok)
  \/ \E bankId \in BankIds, ok \in BOOLEAN : GetTransactionsByBankId(bankId, ok)

SpecTx == Init /\ [][TxNext]_vars

----------------------------------------------------------------------------
(* The whole system                                                        *)

Next == AuthNext \/ LinkNext \/ TxNext

Spec == Init /\ [][Next]_vars

\* The same actions, with the number of things the three services were asked
\* to create capped together: an action that creates, or a new invocation of
\* the workflow, starts only while there is room; the reads, logoutAccount
\* and an invocation under way are never held back.
Room ==
  Len(accounts) + Len(sessions) + starts + Len(banks) + Len(transactions)
    < MaxRecords

\* the arguments drawn when all the actions run together
AllUserData == {u \in UserData : u.email = "a@b.com"}
AllTransactions ==
  {t \in TransactionInputs : t.senderBankId = "X" /\ t.receiverBankId = "Y"}

AllNext ==
  \/ /\ Room
     /\ \/ \E userData \in AllUserData, password \in Passwords, f \in SignUpFailures :
             SignUp(userData, password, f)
        \/ \E password \in Passwords, sessionOk, infoOk \in BOOLEAN :
             SignIn("a@b.com", password, sessionOk, infoOk)
        \/ \E transaction \in AllTransactions, ok \in BOOLEAN :
             CreateTransaction(transaction, ok)
        \/ \E fields \in DirectBankFields, ok \in BOOLEAN :
             CreateBankAccountCall(fields, ok)
  \/ /\ run[1].pc \in {"idle", "done"} => Room
     /\ ExchangePublicToken(1)
  \/ \E infoOk \in BOOLEAN : GetLoggedInUser(infoOk)
  \/ \E revoked \in BOOLEAN : LogoutAccount(revoked)
  \/ \E ok \in BOOLEAN : GetBankByAccountId("acct-A", ok)
  \/ \E ok \in BOOLEAN : GetTransactionsByBankId("X", ok)

SpecAll == Init /\ [][AllNext]_vars

----------------------------------------------------------------------------
(* Properties                                                              *)

\* the steps an invocation has made since it started
TraceOf(r) == IF run[r].pc = "idle" THEN <<>> ELSE run[r].trace

\* the steps of the given name in a trace
StepsNamed(tr, step) == {i \in 1..Len(tr) : tr[i].step = step}

\* C1: an invocation of the linking workflow calls createBankAccount only
\* after addFundingSource gave it a non-empty URL, and every Bank document
\* the workflow persisted carries a non-empty fundingSourceUrl that a
\* funding-source registration of the processor answered with.
C1_PersistOnlyWithFundingSource ==
  /\ \A r \in Runs :
       StepsNamed(TraceOf(r), "createBankAccount") # {} =>
         /\ ~Falsy(run[r].fundingSourceUrl)
         /\ \E i \in StepsNamed(TraceOf(r), "createFundingSource") : TraceOf(r)[i].ok
  /\ \A i \in 1..Len(banks) :
       banks[i].id \in linked =>
         /\ ~Falsy(banks[i].fundingSourceUrl)
         /\ \E j \in 1..Len(fundingSources) :
              fundingSources[j].url = banks[i].fundingSourceUrl

\* a Bank document persisted by the workflow, after an invocation whose
\* funding-source registration yielded no URL
C1_Witness ==
  /\ linked # {}
  /\ \E j \in 1..Len(fundingSources) : Falsy(fundingSources[j].url)

\* the Bank documents whose accountId is the given one
BanksWithAccountId(accountId) ==
  {i \in 1..Len(banks) : banks[i].accountId = accountId}

\* C2: an answered getBankByAccountId returns null when no Bank document or
\* at least two have the accountId, and the one document when exactly one has.
C2_BankByAccountId ==
  (last.op = "getBankByAccountId" /\ last.ok) =>
    LET m == BanksWithAccountId(last.accountId)
    IN IF Cardinality(m) = 1
         THEN \E i \in m : last.ret = banks[i]
         ELSE last.ret = Null

\* two Bank documents share the accountId and the query returned null
C2_Witness ==
  /\ last.op = "getBankByAccountId"
  /\ last.ok
  /\ Cardinality(BanksWithAccountId(last.accountId)) >= 2
  /\ last.ret = Null

\* the stored transactions sent, and received, by the bank
SentBy(bankId) ==
  {i \in 1..Len(transactions) : transactions[i].senderBankId = bankId}
ReceivedBy(bankId) ==
  {i \in 1..Len(transactions) : transactions[i].receiverBankId = bankId}

\* C3: an answered getTransactionsByBankId returns a total equal to the
\* number of sender matches plus the number of receiver matches, and as many
\* documents as that total.
C3_TotalIsSumAndLength ==
  (last.op = "getTransactionsByBankId" /\ last.ok) =>
    /\ last.ret.total =
         Cardinality(SentBy(last.bankId)) + Cardinality(ReceivedBy(last.bankId))
    /\ Len(last.ret.documents) = last.ret.total

\* a query whose bank both sent and received
C3_Witness ==
  /\ last.op = "getTransactionsByBankId"
  /\ last.ok
  /\ SentBy(last.bankId) # {}
  /\ ReceivedBy(last.bankId) # {}
  /\ last.ret.total >= 2

\* how often the document occurs in the list
Occurrences(documents, d) ==
  Cardinality({k \in 1..Len(documents) : documents[k] = d})

NoSelfTransfer ==
  \A i \in 1..Len(transactions) :
    transactions[i].senderBankId # transactions[i].receiverBankId

C5_SignUpCreatesOneOfEach ==
  (last.op = "signUp" /\ last.ret # NoReturn) =>
    /\ Len(accounts) = last.pre.accounts + 1
    /\ Len(customers) = last.pre.customers + 1
    /\ Len(users) = last.pre.users + 1
    /\ LET account == accounts[Len(accounts)]
           customer == customers[Len(customers)]
           user == users[Len(users)]
       IN /\ last.ret = user
          /\ user.userId = account.id
          /\ user.dwollaCustomerUrl = customer.url
          /\ user.dwollaCustomerId = customer.id
          /\ user.dwollaCustomerId =
               user.dwollaCustomerUrl.segs[Len(user.dwollaCustomerUrl.segs)]

\* a sign-up that returned its user after an earlier one had failed half-way
C5_Witness ==
  /\ last.op = "signUp"
  /\ last.ret # NoReturn
  /\ Len(accounts) > Len(users)

\* C6: in every invocation of exchangePublicToken the steps made so far are
\* the first ones of the order exchange, accounts fetch, processor token,
\* on-demand authorization, funding-source registration, Bank persistence,
\* view revalidation, and no step follows a step that failed.
C6_FailureAbortsLaterSteps ==
  \A r \in Runs :
    LET tr == TraceOf(r)
    IN /\ Len(tr) <= Len(StepOrder)
       /\ \A i \in 1..Len(tr) : tr[i].step = StepOrder[i]
       /\ \A i \in 1..(Len(tr) - 1) : tr[i].ok

\* C7: a signUp whose account creation or customer creation failed returns
\* no user, adds no User document, opens no session and leaves the cookie as
\* it was; when it was the customer creation that failed, the account created
\* before it is still there.
C7_SignUpFailureLeavesNoUser ==
  (last.op = "signUp"
   /\ last.fail \in {"account", "customerThrow", "customerNoLocation"}) =>
    /\ last.ret = NoReturn
    /\ Len(users) = last.pre.users
    /\ Len(sessions) = last.pre.sessions
    /\ cookie = last.pre.cookie
    /\ Len(accounts) = last.pre.accounts + (IF last.fail = "account" THEN 0 ELSE 1)

\* the customer creation threw after the account had been created
C7_Witness ==
  /\ last.op = "signUp"
  /\ last.fail = "customerThrow"
  /\ Len(accounts) = last.pre.accounts + 1
  /\ Len(users) = last.pre.users

\* the invocations whose accounts fetch answered with an empty list
EmptyAccounts(r) ==
  /\ \E i \in StepsNamed(TraceOf(r), "accountsGet") : TraceOf(r)[i].ok
  /\ AccountsOf(run[r].itemId) = <<>>

\* C8: an invocation whose accounts fetch answered with an empty list has
\* ended with nothing returned and nothing thrown to its caller, and made no
\* step after the fetch: no processor token, no funding source, no Bank
\* document.
C8_EmptyAccountsEndsQuietly ==
  \A r \in Runs :
    EmptyAccounts(r) =>
      /\ run[r].pc = "done"
      /\ run[r].ret = NoReturn
      /\ Len(TraceOf(r)) = 2
      /\ \A step \in {"processorTokenCreate", "createFundingSource", "createBankAccount"} :
           StepsNamed(TraceOf(r), step) = {}

\* an invocation that met an empty accounts list
C8_Witness == \E r \in Runs : EmptyAccounts(r)

\* C9: logoutAccount returns null on every path.
C9_LogoutReturnsNull ==
  last.op = "logoutAccount" => last.ret = Null

\* C10: the Transaction a createTransaction call persisted has channel
\* "Online" and category "Transfer", and the sender, receiver, amount and
\* currency of the argument.
C10_FixedChannelAndCategory ==
  (last.op = "createTransaction" /\ last.ok) =>
    LET stored == transactions[Len(transactions)]
    IN /\ stored.channel = "Online"
       /\ stored.category = "Transfer"
       /\ stored.senderBankId = last.arg.senderBankId
       /\ stored.receiverBankId = last.arg.receiverBankId
       /\ stored.amount = last.arg.amount
       /\ stored.currency = last.arg.currency

\* the invocations whose createBankAccount call stored its document
Persisted(r) ==
  \E i \in StepsNamed(TraceOf(r), "createBankAccount") : TraceOf(r)[i].ok

\* two invocations for the same user that selected the same external account
SameLink(r1, r2) ==
  /\ r1 # r2
  /\ Persisted(r1)
  /\ Persisted(r2)
  /\ run[r1].user = run[r2].user
  /\ run[r1].accountData.account_id = run[r2].accountData.account_id

\* C11: nothing coordinates two invocations of exchangePublicToken for the
\* same user and external account: once both have persisted, the Bank
\* collection holds two documents of the workflow with that accountId for
\* that user, and an answered getBankByAccountId for it returns null.
C11_DuplicateBanksGiveNull ==
  \A r1, r2 \in Runs :
    SameLink(r1, r2) =>
      LET a == run[r1].accountData.account_id
      IN /\ Cardinality({i \in BanksWithAccountId(a) :
                           /\ banks[i].id \in linked
                           /\ banks[i].userId = run[r1].user.id}) >= 2
         /\ (last.op = "getBankByAccountId" /\ last.ok /\ last.accountId = a) =>
              last.ret = Null

\* both invocations returned success after interleaving (the first registered
\* its funding source first, the second persisted its Bank document first),
\* and the query for the shared accountId returned null
C11_Witness ==
  /\ SameLink(1, 2)
  /\ run[1].pc = "done" /\ run[1].ret = Complete
  /\ run[2].pc = "done" /\ run[2].ret = Complete
  /\ fundingSources[1].url = run[1].fundingSourceUrl
  /\ banks[1].fundingSourceUrl = run[2].fundingSourceUrl
  /\ last.op = "getBankByAccountId"
  /\ last.ok
  /\ last.accountId = run[1].accountData.account_id
  /\ last.ret = Null

\* the invocations whose on-demand authorization could not be obtained
AuthorizationFailed(r) ==
  \E i \in StepsNamed(TraceOf(r), "createOnDemandAuthorization") : ~TraceOf(r)[i].ok

\* C12: addFundingSource asks for the on-demand authorization before it
\* registers the funding source, and when the authorization could not be
\* obtained it sends no registration request and yields no URL.
C12_AuthorizationFailurePropagates ==
  \A r \in Runs :
    LET tr == TraceOf(r)
    IN /\ \A i \in StepsNamed(tr, "createFundingSource") :
            \E j \in StepsNamed(tr, "createOnDemandAuthorization") : j < i
       /\ AuthorizationFailed(r) =>
            /\ StepsNamed(tr, "createFundingSource") = {}
            /\ "fundingSourceUrl" \notin DOMAIN run[r]

\* C14: an invocation of exchangePublicToken that returned
\* {publicTokenExchange: "complete"} persisted a Bank document in that run.
C14_SuccessOnlyIfPersisted ==
  \A r \in Runs :
    (run[r].pc = "done" /\ run[r].ret = Complete) => Persisted(r)

\* the first sequence is the beginning of the second
IsPrefix(s, t) == Len(s) <= Len(t) /\ SubSeq(t, 1, Len(s)) = s

\* C13: no step of any action changes or removes a User, Bank or Transaction
\* document that is already stored; a step at most adds documents after them.
C13_RecordsNeverChange ==
  [][/\ IsPrefix(users, users')
     /\ IsPrefix(banks, banks')
     /\ IsPrefix(transactions, transactions')]_vars

\* documents of the three kinds are stored and an action has run since
C13_Witness ==
  /\ Len(users) >= 1
  /\ Len(banks) >= 1
  /\ Len(transactions) >= 1
  /\ last.op = "logoutAccount"

====
